---- MODULE Spec2Model ----
(***************************************************************************)
(* Model of the Free Fire info Telegram bot (src/main.py): the recursive   *)
(* field resolution (_norm, _search_all, pick_best, _coerce_int,           *)
(* format_player_info), the command parser (parse_command) and the webhook *)
(* handler (telegram_webhook with fetch_player and tg_request).            *)
(*                                                                         *)
(* A Python str is a sequence of one-character strings, so that            *)
(* normalisation, substring tests, regular-expression matching and number  *)
(* rendering are computed character by character.                          *)
(***************************************************************************)
EXTENDS Integers, Sequences, FiniteSets, TLC

VARIABLES
    pc,       \* position of the operation under study
    doc,      \* the JSON document handed to the resolution core
    fld,      \* index of the logical field a resolution call is made for
    hits,     \* result of _search_all
    best,     \* result of pick_best
    summary,  \* result of format_player_info
    s,        \* input string of _coerce_int
    out,      \* result of _coerce_int
    text,     \* chat text handed to parse_command
    cmd,      \* result of parse_command
    hook      \* state of one telegram_webhook call

vars == <<pc, doc, fld, hits, best, summary, s, out, text, cmd, hook>>

----------------------------------------------------------------------------
(* Strings *)

Chars(str) == [i \in 1..Len(str) |-> SubSeq(str, i, i)]

LowerAlpha == Chars("abcdefghijklmnopqrstuvwxyz")
UpperAlpha == Chars("ABCDEFGHIJKLMNOPQRSTUVWXYZ")
Digits == Chars("0123456789")

Letters == {LowerAlpha[i] : i \in 1..26} \cup {UpperAlpha[i] : i \in 1..26}
DigitSet == {Digits[i] : i \in 1..10}

LowerOf == [c \in {UpperAlpha[i] : i \in 1..26} |->
               LowerAlpha[CHOOSE i \in 1..26 : UpperAlpha[i] = c]]

DigitVal == [c \in DigitSet |-> (CHOOSE i \in 1..10 : Digits[i] = c) - 1]

\* str.lower()
lower(str) == [i \in 1..Len(str) |->
                 IF str[i] \in DOMAIN LowerOf THEN LowerOf[str[i]] ELSE str[i]]

\* sub in str
Contains(sub, str) ==
    \E i \in 0..(Len(str) - Len(sub)) : SubSeq(str, i + 1, i + Len(sub)) = sub

\* str.startswith(prefix)
startswith(str, prefix) ==
    Len(str) >= Len(prefix) /\ SubSeq(str, 1, Len(prefix)) = prefix

\* str(n) for an int
RECURSIVE IntToStr(_)
IntToStr(n) ==
    IF n < 0 THEN <<"-">> \o IntToStr(-n)
    ELSE IF n < 10 THEN <<Digits[n + 1]>>
    ELSE IntToStr(n \div 10) \o <<Digits[(n % 10) + 1]>>

\* int(digits) for a non-empty string of digits
RECURSIVE ParseInt(_)
ParseInt(digits) ==
    IF digits = <<>> THEN 0
    ELSE 10 * ParseInt(SubSeq(digits, 1, Len(digits) - 1))
         + DigitVal[digits[Len(digits)]]

\* "sep".join(parts)
RECURSIVE Join(_, _)
Join(sep, parts) ==
    IF parts = <<>> THEN <<>>
    ELSE IF Len(parts) = 1 THEN parts[1]
    ELSE parts[1] \o sep \o Join(sep, Tail(parts))

----------------------------------------------------------------------------
(* JSON documents: a tree of mapping, sequence and scalar nodes.  A map    *)
(* keeps its entries in insertion order; the entries of a list have the    *)
(* empty key.                                                              *)

MapNode(kids)  == [t |-> "map",  kids |-> kids, s |-> <<>>, n |-> 0]
ListNode(kids) == [t |-> "list", kids |-> kids, s |-> <<>>, n |-> 0]
StrNode(str)   == [t |-> "str",  kids |-> <<>>, s |-> str,  n |-> 0]
IntNode(n)     == [t |-> "int",  kids |-> <<>>, s |-> <<>>, n |-> n]
NullNode       == [t |-> "null", kids |-> <<>>, s |-> <<>>, n |-> 0]
Entry(k, v)    == [k |-> k, v |-> v]
Item(v)        == [k |-> <<>>, v |-> v]

\* dict.get(key): the node under key, or None
HasKey(obj, key) == obj.t = "map" /\ \E i \in 1..Len(obj.kids) : obj.kids[i].k = key
GetKey(obj, key) == obj.kids[CHOOSE i \in 1..Len(obj.kids) : obj.kids[i].k = key].v

----------------------------------------------------------------------------
(* Recursive search utilities *)

_norm(str) == lower(SelectSeq(str, LAMBDA c : c # "_" /\ c # "-"))

ChildPath(path, k) == IF path # <<>> THEN path \o <<".">> \o k ELSE k
IndexPath(path, idx) == path \o <<"[">> \o IntToStr(idx) \o <<"]">>

Hit(v, path, nk) == [val |-> v, path |-> path, nk |-> nk]

\* first loop of the dict branch: the direct children whose key matches
DirectHits(obj, want, path) ==
    LET m == SelectSeq(obj.kids, LAMBDA e : _norm(e.k) \in want)
    IN  [i \in 1..Len(m) |-> Hit(m[i].v, ChildPath(path, m[i].k), _norm(m[i].k))]

\* mutant: one loop that emits a matching entry and recurses into it at once
RECURSIVE _search_all_Interleaved(_, _, _)
RECURSIVE SearchKids_Interleaved(_, _, _, _)
SearchKids_Interleaved(obj, want, path, i) ==
    IF i > Len(obj.kids) THEN <<>>
    ELSE (IF obj.t = "map" /\ _norm(obj.kids[i].k) \in want
             THEN <<Hit(obj.kids[i].v, ChildPath(path, obj.kids[i].k), _norm(obj.kids[i].k))>>
             ELSE <<>>)
         \o _search_all_Interleaved(obj.kids[i].v, want,
                     IF obj.t = "map" THEN ChildPath(path, obj.kids[i].k)
                                      ELSE IndexPath(path, i - 1))
         \o SearchKids_Interleaved(obj, want, path, i + 1)
_search_all_Interleaved(obj, want, path) ==
    IF obj.t \in {"map", "list"} THEN SearchKids_Interleaved(obj, want, path, 1) ELSE <<>>

RECURSIVE _search_all(_, _, _)
RECURSIVE SearchKids(_, _, _, _)

\* the recursing loops: entries from the i-th on, in insertion / index order
SearchKids(obj, want, path, i) ==
    IF i > Len(obj.kids) THEN <<>>
    ELSE _search_all(obj.kids[i].v, want,
                     IF obj.t = "map" THEN ChildPath(path, obj.kids[i].k)
                                      ELSE IndexPath(path, i - 1))
         \o SearchKids(obj, want, path, i + 1)

_search_all(obj, want, path) ==
    IF obj.t = "map" THEN DirectHits(obj, want, path) \o SearchKids(obj, want, path, 1)
    ELSE IF obj.t = "list" THEN SearchKids(obj, want, path, 1)
    ELSE <<>>

TRUST_SECTIONS_UID == <<Chars("basicinfo"), Chars("profileinfo"), Chars("clanbasicinfo")>>
TRUST_SECTIONS_LIKES == <<Chars("socialinfo"), Chars("basicinfo"), Chars("profileinfo")>>

Quote == "\""
Backslash == "\\"

\* the sentinel "no value found" (U+2014) and the other non-ASCII characters
\* of the reply texts, each one character
EmDash == "U+2014"
Bullet == "U+2022"
LeftArrow == "U+2190"
GreenCircle == "U+1F7E2"
Sentinel == <<EmDash>>

\* Optional[str]
None == [some |-> FALSE, p |-> <<>>]
Some(p) == [some |-> TRUE, p |-> p]

\* the escaping of a JSON string literal (quote and backslash)
RECURSIVE JsonEscape(_)
JsonEscape(str) ==
    IF str = <<>> THEN <<>>
    ELSE (IF Head(str) = Quote \/ Head(str) = Backslash
             THEN <<Backslash, Head(str)>> ELSE <<Head(str)>>)
         \o JsonEscape(Tail(str))

\* json.dumps(val, ensure_ascii=False)
RECURSIVE Dumps(_)
Dumps(val) ==
    CASE val.t = "map" ->
           <<"{">> \o Join(Chars(", "),
               [i \in 1..Len(val.kids) |->
                   <<Quote>> \o JsonEscape(val.kids[i].k) \o <<Quote>> \o Chars(": ")
                   \o Dumps(val.kids[i].v)]) \o <<"}">>
      [] val.t = "list" ->
           <<"[">> \o Join(Chars(", "),
               [i \in 1..Len(val.kids) |-> Dumps(val.kids[i].v)]) \o <<"]">>
      [] val.t = "str" -> <<Quote>> \o JsonEscape(val.s) \o <<Quote>>
      [] val.t = "int" -> IntToStr(val.n)
      [] OTHER -> Chars("null")

Truncate(str, n) == SubSeq(str, 1, IF Len(str) < n THEN Len(str) ELSE n)

_to_str(val) ==
    CASE val.t \in {"map", "list"} -> Truncate(Dumps(val), 200)
      [] val.t = "str" -> val.s
      [] val.t = "int" -> IntToStr(val.n)
      [] OTHER -> Chars("None")

\* mutant: only the leading run of digits is converted
RECURSIVE LeadingDigits(_)
LeadingDigits(str) ==
    IF str = <<>> \/ Head(str) \notin DigitSet THEN <<>>
    ELSE <<Head(str)>> \o LeadingDigits(Tail(str))
_coerce_int_LeadingRun(str) ==
    IF LeadingDigits(str) = <<>> THEN str ELSE IntToStr(ParseInt(LeadingDigits(str)))

_coerce_int(str) ==
    LET digits == SelectSeq(str, LAMBDA c : c \in DigitSet)
    IN  IF digits = <<>> THEN str ELSE IntToStr(ParseInt(digits))

\* want = {_norm(k) for k in keys}
Want(keys) == {_norm(keys[i]) : i \in 1..Len(keys)}

\* order = {_norm(k): i for i, k in enumerate(keys)}; order.get(nk, 50):
\* a later alias with the same normal form overwrites an earlier one
Order(keys, nk) ==
    LET at == {i \in 1..Len(keys) : _norm(keys[i]) = nk}
    IN  IF at = {} THEN 50
        ELSE (CHOOSE i \in at : \A j \in at : j <= i) - 1

AnyIn(secs, pl) == \E i \in 1..Len(secs) : Contains(secs[i], pl)

\* mutant: the bare "id" is rewarded instead of penalized
score_IdBonus(item, keys, trust_sections, penalize_sections) ==
    (100 - Order(keys, item.nk))
    + (IF AnyIn(trust_sections, lower(item.path)) THEN 80 ELSE 0)
    - (IF AnyIn(penalize_sections, lower(item.path)) THEN 80 ELSE 0)
    + (IF item.nk = Chars("id") THEN 70 ELSE 0)

\* mutant: the section hints are ignored
score_NoSections(item, keys, trust_sections, penalize_sections) ==
    (100 - Order(keys, item.nk)) - (IF item.nk = Chars("id") THEN 70 ELSE 0)

score(item, keys, trust_sections, penalize_sections) ==
    LET pl == lower(item.path)
    IN  (100 - Order(keys, item.nk))
        + (IF AnyIn(trust_sections, pl) THEN 80 ELSE 0)
        - (IF AnyIn(penalize_sections, pl) THEN 80 ELSE 0)
        - (IF item.nk = Chars("id") THEN 70 ELSE 0)

\* mutant: the last hit of maximal score
MaxHit_Last(h_, keys, trust_sections, penalize_sections) ==
    CHOOSE i \in 1..Len(h_) :
        /\ \A j \in 1..Len(h_) :
              score(h_[j], keys, trust_sections, penalize_sections)
                  <= score(h_[i], keys, trust_sections, penalize_sections)
        /\ \A j \in (i + 1)..Len(h_) :
              score(h_[j], keys, trust_sections, penalize_sections)
                  < score(h_[i], keys, trust_sections, penalize_sections)

\* max(hits, key=score): the index of the first hit of maximal score
MaxHit(h_, keys, trust_sections, penalize_sections) ==
    LET sc == [i \in 1..Len(h_) |-> score(h_[i], keys, trust_sections, penalize_sections)]
    IN  CHOOSE i \in 1..Len(h_) :
            /\ \A j \in 1..Len(h_) : sc[j] <= sc[i]
            /\ \A j \in 1..(i - 1) : sc[j] < sc[i]

\* mutant: no hits give an empty string instead of the sentinel
SelectBest_EmptyString(h_, keys, trust_sections, penalize_sections) ==
    IF h_ = <<>> THEN [val |-> <<>>, path |-> None]
    ELSE [val |-> _to_str(h_[MaxHit(h_, keys, trust_sections, penalize_sections)].val),
          path |-> Some(h_[MaxHit(h_, keys, trust_sections, penalize_sections)].path)]

\* the selection among the hits of _search_all, and the rendering
SelectBest(h_, keys, trust_sections, penalize_sections) ==
    IF h_ = <<>> THEN [val |-> Sentinel, path |-> None]
    ELSE [val |-> _to_str(h_[MaxHit(h_, keys, trust_sections, penalize_sections)].val),
          path |-> Some(h_[MaxHit(h_, keys, trust_sections, penalize_sections)].path)]

pick_best(obj, keys, trust_sections, penalize_sections) ==
    SelectBest(_search_all(obj, Want(keys), <<>>), keys, trust_sections, penalize_sections)

----------------------------------------------------------------------------
(* Formatting (HTML-safe) *)

\* html.escape(s or "")
RECURSIVE h(_)
h(str) ==
    IF str = <<>> THEN <<>>
    ELSE (CASE Head(str) = "&" -> Chars("&amp;")
            [] Head(str) = "<" -> Chars("&lt;")
            [] Head(str) = ">" -> Chars("&gt;")
            [] Head(str) = Quote -> Chars("&quot;")
            [] Head(str) = "'" -> Chars("&#x27;")
            [] OTHER -> <<Head(str)>>)
         \o h(Tail(str))

Penalized == <<Chars("petinfo"), Chars("creditscoreinfo"), Chars("diamondcost")>>

\* the nine resolution calls of format_player_info, in call order
Fields == <<
    [label |-> Chars("nickname"), title |-> Chars("Nickname"),
     keys |-> <<Chars("nickname"), Chars("name"), Chars("playername"), Chars("ign")>>,
     trust |-> TRUST_SECTIONS_UID, penal |-> <<>>, count |-> FALSE],
    [label |-> Chars("uid"), title |-> Chars("UID"),
     keys |-> <<Chars("uid"), Chars("playeruid"), Chars("playerid"), Chars("player_id"), Chars("id")>>,
     trust |-> TRUST_SECTIONS_UID, penal |-> Penalized, count |-> FALSE],
    [label |-> Chars("level"), title |-> Chars("Level"),
     keys |-> <<Chars("level"), Chars("playerlevel")>>,
     trust |-> TRUST_SECTIONS_UID, penal |-> <<>>, count |-> FALSE],
    [label |-> Chars("region"), title |-> Chars("Region/Server"),
     keys |-> <<Chars("region"), Chars("server")>>,
     trust |-> TRUST_SECTIONS_UID, penal |-> <<>>, count |-> FALSE],
    [label |-> Chars("rank"), title |-> Chars("Rank/Tier"),
     keys |-> <<Chars("rank"), Chars("tier"), Chars("ranktier")>>,
     trust |-> TRUST_SECTIONS_UID, penal |-> <<>>, count |-> FALSE],
    [label |-> Chars("likes"), title |-> Chars("Likes"),
     keys |-> <<Chars("likes"), Chars("like"), Chars("likecount"), Chars("like_count")>>,
     trust |-> TRUST_SECTIONS_LIKES, penal |-> Penalized, count |-> TRUE],
    [label |-> Chars("guild"), title |-> Chars("Guild"),
     keys |-> <<Chars("guild"), Chars("clan"), Chars("guildname"), Chars("clanname")>>,
     trust |-> TRUST_SECTIONS_UID, penal |-> <<>>, count |-> FALSE],
    [label |-> Chars("country"), title |-> Chars("Country"),
     keys |-> <<Chars("country"), Chars("nationality"), Chars("regionname"), Chars("countryname")>>,
     trust |-> TRUST_SECTIONS_UID, penal |-> <<>>, count |-> FALSE],
    [label |-> Chars("bio"), title |-> Chars("Bio"),
     keys |-> <<Chars("signature"), Chars("bio"), Chars("about"), Chars("status")>>,
     trust |-> TRUST_SECTIONS_LIKES, penal |-> <<>>, count |-> FALSE] >>

NFields == Len(Fields)

\* mutant: the wrapper is never unwrapped
EffectiveRoot_NoUnwrap(data) == data

\* root = data.get("data") if isinstance(data.get("data"), dict) else data
EffectiveRoot(data) ==
    IF HasKey(data, Chars("data")) /\ GetKey(data, Chars("data")).t = "map"
    THEN GetKey(data, Chars("data")) ELSE data

\* likes = _coerce_int(likes), for the count field only
Coerced(f, r) == IF Fields[f].count THEN [val |-> _coerce_int(r.val), path |-> r.path] ELSE r

\* the nine resolution calls of format_player_info
ResolveAll(root) ==
    [f \in 1..NFields |->
        Coerced(f, pick_best(root, Fields[f].keys, Fields[f].trust, Fields[f].penal))]

FieldLine(f, value) ==
    <<Bullet>> \o Chars(" <b>") \o Fields[f].title \o Chars(":</b> ")
    \o (IF f = 2 THEN Chars("<code>") \o h(value) \o Chars("</code>") ELSE h(value))

\* the fields whose source path w is truthy, in call order
Found(got) == SelectSeq([f \in 1..NFields |-> f],
                        LAMBDA f : got[f].path.some /\ got[f].path.p # <<>>)

Where(got, found) ==
    [i \in 1..Len(found) |->
        Fields[found[i]].label \o <<LeftArrow>> \o Chars("<code>")
        \o h(got[found[i]].path.p) \o Chars("</code>")]

\* ", ".join(list(root.keys())[:20])
KeysPreview(root) ==
    Join(Chars(", "),
         [i \in 1..(IF Len(root.kids) < 20 THEN Len(root.kids) ELSE 20) |-> root.kids[i].k])

Parts(root, got, where, keys_preview) ==
    <<Chars("<b>") \o <<GreenCircle>> \o Chars(" Free Fire Player Info</b>")>>
    \o [f \in 1..NFields |-> FieldLine(f, got[f].val)]
    \o (IF where # <<>>
        THEN << <<>>, Chars("<i>Fields source:</i> ") \o Join(Chars(", "), where) >>
        ELSE <<>>)
    \o (IF root.t = "map" /\ keys_preview # <<>>
        THEN << <<>>, Chars("<i>Sections available:</i> ") \o h(keys_preview) >>
        ELSE <<>>)

Rendered(got, parts) == [got |-> got, parts |-> parts, text |-> Join(<<"\n">>, parts)]

Assemble(root, got) ==
    Rendered(got, Parts(root, got, Where(got, Found(got)), KeysPreview(root)))

format_player_info(data) == Assemble(EffectiveRoot(data), ResolveAll(EffectiveRoot(data)))

----------------------------------------------------------------------------
(* Input documents of the resolution core: a root mapping of up to         *)
(* MaxEntries branches, each a field or a section, plus the non-mapping    *)
(* documents and the document of the worked example.                       *)

MaxEntries == 2

K_uid == Chars("uid")
K_Id == Chars("Id")
K_PlayerID == Chars("Player_ID")
K_likes == Chars("likes")
K_basicinfo == Chars("basicinfo")
K_petinfo == Chars("petinfo")
K_stats == Chars("stats")
K_ProfileInfo == Chars("ProfileInfo")

V_uid == StrNode(Chars("7"))
V_id == IntNode(9)
V_pid == StrNode(Chars("8"))
V_likes == StrNode(Chars("1,2k"))

Map1(k, v) == MapNode(<<Entry(k, v)>>)

Branches == {
    Entry(K_uid, V_uid),
    Entry(K_Id, V_id),
    Entry(K_likes, V_likes),
    Entry(K_basicinfo, Map1(K_uid, V_uid)),
    Entry(K_basicinfo, Map1(K_Id, V_id)),
    Entry(K_basicinfo, Map1(K_PlayerID, V_pid)),
    Entry(K_basicinfo, Map1(K_likes, V_likes)),
    Entry(K_basicinfo, MapNode(<<Entry(K_Id, V_id), Entry(K_uid, V_uid)>>)),
    Entry(K_basicinfo, Map1(K_petinfo, Map1(K_Id, V_id))),
    Entry(K_petinfo, Map1(K_uid, V_uid)),
    Entry(K_petinfo, Map1(K_Id, V_id)),
    Entry(K_petinfo, Map1(K_likes, IntNode(42))),
    Entry(K_stats, Map1(K_uid, V_uid)),
    Entry(K_stats, Map1(K_Id, V_id)),
    Entry(K_stats, ListNode(<<Item(Map1(K_Id, V_id)), Item(StrNode(Chars("x"))),
                              Item(Map1(K_uid, V_uid))>>)),
    Entry(K_stats, Map1(K_ProfileInfo, Map1(K_Id, V_id))),
    Entry(Chars("items"), ListNode(<<Item(Map1(K_petinfo, Map1(K_uid, V_uid)))>>)),
    Entry(Chars("foo"), ListNode(<<Item(StrNode(Chars("x"))), Item(NullNode)>>)),
    Entry(K_uid, Map1(K_Id, V_id)),
    Entry(Chars("data"), Map1(K_uid, V_uid)),
    Entry(Chars("data"), ListNode(<<Item(Map1(K_uid, V_uid))>>)),
    Entry(K_ProfileInfo, Map1(K_PlayerID, V_pid)) }

\* the entries of a dict have distinct keys
BranchSeqs(n) ==
    {q \in [1..n -> Branches] : \A i, j \in 1..n : i # j => q[i].k # q[j].k}

ScenarioDoc ==
    Map1(Chars("data"), MapNode(<<
        Entry(K_basicinfo, MapNode(<<Entry(K_uid, StrNode(Chars("500123"))),
                                     Entry(Chars("nickname"), StrNode(Chars("Foo")))>>)),
        Entry(Chars("socialinfo"), Map1(K_likes, StrNode(Chars("42")))),
        Entry(K_petinfo, Map1(Chars("id"), StrNode(Chars("999")))) >>))

NonMapDocs ==
    {StrNode(Chars("uid")), IntNode(7), NullNode, ListNode(<<>>),
     ListNode(<<Item(Map1(K_uid, V_uid)), Item(Map1(K_Id, V_id))>>)}

Docs ==
    {MapNode(q) : q \in UNION {BranchSeqs(n) : n \in 0..MaxEntries}}
    \cup NonMapDocs \cup {ScenarioDoc}

----------------------------------------------------------------------------
(* The resolution core applied to one document *)

Idle == <<>>

Init ==
    /\ pc = "start"
    /\ doc \in Docs
    /\ fld = 0
    /\ hits = Idle /\ best = Idle /\ summary = Idle
    /\ s = Idle /\ out = Idle /\ text = Idle /\ cmd = Idle /\ hook = Idle

\* hits = _search_all(obj, want) as pick_best calls it for field f
DoSearchAll(f) ==
    /\ pc = "start"
    /\ hits' = _search_all(doc, Want(Fields[f].keys), <<>>)
    /\ fld' = f
    /\ pc' = "searched"
    /\ UNCHANGED <<doc, best, summary, s, out, text, cmd, hook>>

\* pick_best(root, keys, trust, penalize) with the arguments of field f
DoPickBest(f) ==
    /\ pc = "start"
    /\ best' = pick_best(doc, Fields[f].keys, Fields[f].trust, Fields[f].penal)
    /\ fld' = f
    /\ pc' = "picked"
    /\ UNCHANGED <<doc, hits, summary, s, out, text, cmd, hook>>

\* format_player_info(data) for a mapping (data: Dict[str, Any])
DoFormat ==
    /\ pc = "start"
    /\ doc.t = "map"
    /\ summary' = format_player_info(doc)
    /\ pc' = "formatted"
    /\ UNCHANGED <<doc, fld, hits, best, s, out, text, cmd, hook>>

Next ==
    \/ \E f \in 1..NFields : DoSearchAll(f)
    \/ \E f \in 1..NFields : DoPickBest(f)
    \/ DoFormat

Spec == Init /\ [][Next]_vars

----------------------------------------------------------------------------
(* What the claims about the resolution core speak of *)

\* every mapping entry of a document, found without the Walker: its position
\* (the indices from the root down), its key, its value and its access path
RECURSIVE Occurrences(_, _, _)
Occurrences(node, pos, path) ==
    UNION { LET at == Append(pos, i)
                k == node.kids[i].k
                p == IF node.t = "list"
                       THEN path \o <<"[">> \o IntToStr(i - 1) \o <<"]">>
                       ELSE IF path = <<>> THEN k ELSE path \o <<".">> \o k
            IN  (IF node.t = "map"
                    THEN {[pos |-> at, key |-> k, val |-> node.kids[i].v, path |-> p]}
                    ELSE {})
                \cup Occurrences(node.kids[i].v, at, p)
          : i \in 1..Len(node.kids) }

MatchingIn(occ, want) == {o \in occ : _norm(o.key) \in want}
Matching(node, keys) == MatchingIn(Occurrences(node, <<>>, <<>>), Want(keys))

FieldHits(f) == _search_all(doc, Want(Fields[f].keys), <<>>)

\* the trust/penalty adjustment of a path under the hints of field f
Trusted(f, path) == AnyIn(Fields[f].trust, lower(path))
Penal(f, path) == AnyIn(Fields[f].penal, lower(path))
Adjust(f, path) == (IF Trusted(f, path) THEN 80 ELSE 0) - (IF Penal(f, path) THEN 80 ELSE 0)

BareId == Chars("id")
UidField == 2
LikesField == 6

Resolved(val, path) == [val |-> val, path |-> Some(path)]
NotFound == [val |-> Sentinel, path |-> None]

\* C1 as stated: in the worked example the nickname and identifier come with
\* the source paths data.basicinfo.nickname and data.basicinfo.uid
C1_PathsFromDocumentRoot ==
    (pc = "formatted" /\ doc = ScenarioDoc) =>
        /\ summary.got[1] = Resolved(Chars("Foo"), Chars("data.basicinfo.nickname"))
        /\ summary.got[UidField] = Resolved(Chars("500123"), Chars("data.basicinfo.uid"))
        /\ summary.got[LikesField].val = Chars("42")

\* C1 amended: in the worked example Nickname = Foo, UID = 500123 (never 999)
\* and Likes = 42, with source paths relative to the effective search root:
\* basicinfo.nickname, basicinfo.uid, socialinfo.likes
C1_Scenario ==
    (pc = "formatted" /\ doc = ScenarioDoc) =>
        /\ summary.got[1] = Resolved(Chars("Foo"), Chars("basicinfo.nickname"))
        /\ summary.got[UidField] = Resolved(Chars("500123"), Chars("basicinfo.uid"))
        /\ summary.got[UidField].val # Chars("999")
        /\ summary.got[LikesField] = Resolved(Chars("42"), Chars("socialinfo.likes"))
        /\ summary.parts[3] = <<Bullet>> \o Chars(" <b>UID:</b> <code>500123</code>")
        /\ summary.parts[12] = Chars("<i>Fields source:</i> nickname") \o <<LeftArrow>>
              \o Chars("<code>basicinfo.nickname</code>, uid") \o <<LeftArrow>>
              \o Chars("<code>basicinfo.uid</code>, likes") \o <<LeftArrow>>
              \o Chars("<code>socialinfo.likes</code>")

C1_Witness == pc = "formatted" /\ doc = ScenarioDoc /\ Len(summary.parts) = 14

\* no bare-"id" hit of h_ that has a rival (per the given relation on
\* paths) among the more specific hits is the one selected
BareIdNotSelected(h_, Rival(_, _)) ==
    \A i, j \in 1..Len(h_) :
        (h_[i].nk = BareId /\ h_[j].nk # BareId /\ Rival(h_[i].path, h_[j].path))
            => best.path.p # h_[i].path

AnyRival(idPath, otherPath) == TRUE
NotLessFavoured(idPath, otherPath) ==
    Adjust(UidField, otherPath) >= Adjust(UidField, idPath)

\* C2 as stated: whenever the Walker yields a bare-"id" candidate and a
\* candidate of a more specific alias, the identifier resolution never
\* selects the bare-"id" one, whatever their sections
C2_BareIdNeverSelected ==
    (pc = "picked" /\ fld = UidField) => BareIdNotSelected(FieldHits(UidField), AnyRival)

\* C2 amended: a bare-"id" candidate is never selected when a candidate of a
\* more specific alias lies at a path whose trust/penalty adjustment is not
\* lower than that of the bare-"id" candidate
C2_BareIdOutrankedInEqualSections ==
    (pc = "picked" /\ fld = UidField) =>
        BareIdNotSelected(FieldHits(UidField), NotLessFavoured)

TrustedIdLosesToTrustedAlias(h_) ==
    \E i, j \in 1..Len(h_) :
        /\ h_[i].nk = BareId /\ Trusted(UidField, h_[i].path)
        /\ h_[j].nk = Chars("playerid") /\ Trusted(UidField, h_[j].path)
        /\ i < j
        /\ best.path.p = h_[j].path

\* a bare "id" in a trusted section next to a "playerid" in a trusted section
C2_Witness ==
    pc = "picked" /\ fld = UidField /\ TrustedIdLosesToTrustedAlias(FieldHits(UidField))

\* the two occurrences of C3: t in a trusted, p in a penalized section
TrustedPenalPair(f, t, p) ==
    /\ Trusted(f, t.path) /\ ~Penal(f, t.path)
    /\ Penal(f, p.path) /\ ~Trusted(f, p.path)

TrustedWins(m) ==
    \A t, p \in m :
        (Cardinality(m) = 2 /\ TrustedPenalPair(fld, t, p))
            => best = Resolved(_to_str(t.val), t.path)

\* C3: when a key of a field occurs twice, once in a trusted and once in a
\* penalized section, pick_best returns the trusted occurrence, whatever the
\* depths, the aliases and the traversal order
C3_TrustedBeatsPenalized ==
    pc = "picked" => TrustedWins(Matching(doc, Fields[fld].keys))

DeepTrustedIdWins(m) ==
    \E t, p \in m :
        /\ Cardinality(m) = 2
        /\ TrustedPenalPair(fld, t, p)
        /\ Len(t.pos) > Len(p.pos) /\ p.pos[1] < t.pos[1]
        /\ _norm(t.key) = BareId /\ _norm(p.key) = Chars("uid")
        /\ best.path.p = t.path

\* the penalized occurrence is shallower, comes first in the traversal and
\* matched the first alias; the trusted one matched the bare "id"
C3_Witness ==
    pc = "picked" /\ fld = UidField /\ DeepTrustedIdWins(Matching(doc, Fields[fld].keys))

\* field f of a summary, given the matching entries m of the search root
FieldRendered(f, m) ==
    /\ m = {} => summary.got[f] = NotFound
    /\ m # {} => summary.got[f].path.some
    /\ summary.parts[f + 1] = FieldLine(f, summary.got[f].val)

AllRendered(root) ==
    \A f \in 1..NFields : FieldRendered(f, Matching(root, Fields[f].keys))

\* C8: when no mapping key of the document normalizes to an alias of the
\* field, pick_best returns the sentinel with no path; in format_player_info
\* such a field leaves the other fields resolved, and all nine rendered
C8_NoMatchGivesSentinel ==
    /\ pc = "picked" =>
          (Matching(doc, Fields[fld].keys) = {} => best = NotFound)
    /\ pc = "formatted" =>
          (Len(summary.parts) >= NFields + 1 /\ AllRendered(EffectiveRoot(doc)))

\* a summary with a field that is not found and another that is
C8_Witness ==
    /\ pc = "formatted"
    /\ \E f, g \in 1..NFields :
          /\ Matching(EffectiveRoot(doc), Fields[f].keys) = {}
          /\ summary.got[f] = NotFound
          /\ Matching(EffectiveRoot(doc), Fields[g].keys) # {}
          /\ summary.got[g].val # Sentinel
          /\ f < g

\* the scores of the hits h_ of field f
Scores(f, h_) ==
    [i \in 1..Len(h_) |-> score(h_[i], Fields[f].keys, Fields[f].trust, Fields[f].penal)]

\* hit i of h_ is the one returned, has the maximum score, and is the first
\* of that score
IsFirstMaximum(h_, sc, i) ==
    /\ best = Resolved(_to_str(h_[i].val), h_[i].path)
    /\ \A j \in 1..Len(h_) : sc[j] <= sc[i]
    /\ \A j \in 1..(i - 1) : sc[j] # sc[i]

FirstMaximumAmong(h_, sc) ==
    h_ # <<>> => \E i \in 1..Len(h_) : IsFirstMaximum(h_, sc, i)

\* C9: the selected candidate has the maximum score and no candidate earlier
\* in the hit list has a score equal to it
C9_FirstMaximum ==
    pc = "picked" => FirstMaximumAmong(FieldHits(fld), Scores(fld, FieldHits(fld)))

TieWonByEarlier(h_, sc) ==
    \E i, j \in 1..Len(h_) :
        /\ i < j
        /\ sc[i] = sc[j]
        /\ \A k \in 1..Len(h_) : sc[k] <= sc[i]
        /\ best.path.p = h_[i].path

\* two candidates share the maximum score and the earlier one is selected
C9_Witness ==
    pc = "picked" /\ TieWonByEarlier(FieldHits(fld), Scores(fld, FieldHits(fld)))

Parent(pos) == SubSeq(pos, 1, Len(pos) - 1)
IsPrefix(a, b) == Len(a) <= Len(b) /\ SubSeq(b, 1, Len(a)) = a

\* the order of the Walker on entry positions: the matching entries of a
\* mapping come before anything inside its children, children are taken in
\* insertion order and list elements in index order
Before(p, q) ==
    IF Parent(p) = Parent(q) THEN p[Len(p)] < q[Len(q)]
    ELSE IF IsPrefix(Parent(p), Parent(q)) THEN TRUE
    ELSE IF IsPrefix(Parent(q), Parent(p)) THEN FALSE
    ELSE LET d == CHOOSE d \in 1..Len(p) :
                      /\ p[d] # q[d]
                      /\ \A e \in 1..(d - 1) : p[e] = q[e]
         IN  p[d] < q[d]

\* the entry among m that hit i stands for
EntryOf(m, i) == CHOOSE o \in m : o.path = hits[i].path

\* the hits are the entries m, each once, in the Walker's order
HitsAre(m) ==
    /\ Len(hits) = Cardinality(m)
    /\ \A o \in m : \E i \in 1..Len(hits) : hits[i] = Hit(o.val, o.path, _norm(o.key))
    /\ \A i \in 1..Len(hits) : \E o \in m : hits[i] = Hit(o.val, o.path, _norm(o.key))
    /\ \A i, j \in 1..Len(hits) : i < j => Before(EntryOf(m, i).pos, EntryOf(m, j).pos)

\* C10: _search_all returns exactly one candidate for each matching mapping
\* entry, none missing and none twice, in the Walker's order, with the
\* entry's value, access path and normalized key
C10_CompleteAndOrdered ==
    pc = "searched" => HitsAre(Matching(doc, Fields[fld].keys))

RootMatchAfterSection(m) ==
    /\ Len(hits) >= 3
    /\ EntryOf(m, 1).pos = <<2>>
    /\ Len(EntryOf(m, 2).pos) = 3 /\ EntryOf(m, 2).pos[1] = 1
    /\ Contains(Chars("[0]."), hits[2].path)
    /\ Contains(Chars("[2]."), hits[3].path)

\* a matching entry of the root comes first although a section inserted
\* before it holds a match, and a match inside a list element was found
C10_Witness ==
    pc = "searched" /\ RootMatchAfterSection(Matching(doc, Fields[fld].keys))

----------------------------------------------------------------------------
(* _coerce_int applied to one rendered string *)

MaxLen == 4

CoerceAlphabet == {"0", "1", "7", ",", "k", EmDash}

CoerceInputs == UNION {[1..n -> CoerceAlphabet] : n \in 0..MaxLen}

InitCoerce ==
    /\ pc = "start"
    /\ s \in CoerceInputs
    /\ out = Idle
    /\ doc = Idle /\ fld = 0 /\ hits = Idle /\ best = Idle /\ summary = Idle
    /\ text = Idle /\ cmd = Idle /\ hook = Idle

DoCoerce ==
    /\ pc = "start"
    /\ out' = _coerce_int(s)
    /\ pc' = "coerced"
    /\ UNCHANGED <<doc, fld, hits, best, summary, s, text, cmd, hook>>

NextCoerce == DoCoerce

SpecCoerce == InitCoerce /\ [][NextCoerce]_vars

HasDigit(str) == \E i \in 1..Len(str) : str[i] \in DigitSet

\* the number a string's digit characters spell, read left to right
RECURSIVE DigitsValue(_, _)
DigitsValue(str, acc) ==
    IF str = <<>> THEN acc
    ELSE DigitsValue(Tail(str),
                     IF Head(str) \in DigitSet THEN 10 * acc + DigitVal[Head(str)] ELSE acc)

\* the number the digits before the first non-digit character spell
RECURSIVE LeadingValue(_, _)
LeadingValue(str, acc) ==
    IF str = <<>> \/ Head(str) \notin DigitSet THEN acc
    ELSE LeadingValue(Tail(str), 10 * acc + DigitVal[Head(str)])

\* a plain decimal rendering of n: digits only, no leading zero
IsRenderingOf(str, n) ==
    /\ str # <<>>
    /\ \A i \in 1..Len(str) : str[i] \in DigitSet
    /\ Len(str) > 1 => str[1] # "0"
    /\ DigitsValue(str, 0) = n

\* C4 as stated: the result renders the leading run of digits; digits after
\* the first non-digit character do not contribute; no digits, no change
C4_LeadingRunOnly ==
    pc = "coerced" =>
        /\ ~HasDigit(s) => out = s
        /\ (s # <<>> /\ s[1] \in DigitSet) => IsRenderingOf(out, LeadingValue(s, 0))

\* C4 amended: the result is the plain integer rendering of all the digit
\* characters of s taken in order, wherever they stand; a string without
\* digit characters is returned unchanged
C4_AllDigits ==
    pc = "coerced" =>
        /\ ~HasDigit(s) => out = s
        /\ HasDigit(s) => IsRenderingOf(out, DigitsValue(s, 0))

\* "1,7k" gives "17": a digit after the first non-digit character counts
C4_Witness ==
    /\ pc = "coerced"
    /\ s = <<"1", ",", "7", "k">>
    /\ out = <<"1", "7">>

----------------------------------------------------------------------------
(* Command parsing *)

DEFAULT_SERVER == Chars("sg")

Whitespace == {" ", "\t", "\n"}
WordChars == Letters \cup DigitSet \cup {"_"}

\* the end of the longest run of characters of class from position p on:
\* the position after its last character (p itself when the run is empty)
RunEnd(str, p, class) ==
    CHOOSE q \in p..(Len(str) + 1) :
        /\ \A i \in p..(q - 1) : str[i] \in class
        /\ q <= Len(str) => str[q] \notin class

\* str.strip()
strip(str) ==
    IF \A i \in 1..Len(str) : str[i] \in Whitespace THEN <<>>
    ELSE SubSeq(str,
                CHOOSE a \in 1..Len(str) :
                    str[a] \notin Whitespace /\ \A i \in 1..(a - 1) : str[i] \in Whitespace,
                CHOOSE b \in 1..Len(str) :
                    str[b] \notin Whitespace /\ \A i \in (b + 1)..Len(str) : str[i] \in Whitespace)

NoCommand == [cmd |-> "none", uid |-> <<>>, server |-> <<>>]
Check(uid, server) == [cmd |-> "check", uid |-> uid, server |-> server]

\* (?:@\w+)? from position p: the position after the optional bot name
AfterBotName(str, p) ==
    IF p <= Len(str) /\ str[p] = "@" /\ RunEnd(str, p + 1, WordChars) > p + 1
    THEN RunEnd(str, p + 1, WordChars) ELSE p

\* \s+(\d+)(?:\s+([a-z]{2}))?$ from position p, ignoring case: a is the
\* start of the digits, b the position after them, c the start of the server
CheckTail(str, a, b, c) ==
    IF ~(a > 0 /\ b > a) THEN NoCommand
    ELSE IF b = Len(str) + 1 THEN Check(SubSeq(str, a, b - 1), DEFAULT_SERVER)
    ELSE IF /\ c > b
            /\ c + 1 = Len(str)
            /\ str[c] \in Letters /\ str[c + 1] \in Letters
         THEN Check(SubSeq(str, a, b - 1), SubSeq(str, c, c + 1))
    ELSE NoCommand

\* re.match(r"^/check(?:@\w+)?\s+(\d+)(?:\s+([a-z]{2}))?$", text, re.IGNORECASE)
MatchCheck(str) ==
    IF ~startswith(lower(str), Chars("/check")) THEN NoCommand
    ELSE IF RunEnd(str, AfterBotName(str, 7), Whitespace) = AfterBotName(str, 7) THEN NoCommand
    ELSE CheckTail(str,
                   RunEnd(str, AfterBotName(str, 7), Whitespace),
                   RunEnd(str, RunEnd(str, AfterBotName(str, 7), Whitespace), DigitSet),
                   RunEnd(str, RunEnd(str, RunEnd(str, AfterBotName(str, 7), Whitespace), DigitSet),
                          Whitespace))

\* re.match(r"^(\d{6,20})$", text)
MatchBareDigits(str) ==
    /\ \A i \in 1..Len(str) : str[i] \in DigitSet
    /\ Len(str) >= 6 /\ Len(str) <= 20

ParseStripped(str) ==
    IF str = <<>> THEN NoCommand
    ELSE IF startswith(str, Chars("/start")) THEN [cmd |-> "start", uid |-> <<>>, server |-> <<>>]
    ELSE IF MatchCheck(str).cmd = "check" THEN MatchCheck(str)
    ELSE IF MatchBareDigits(str) THEN Check(str, DEFAULT_SERVER)
    ELSE NoCommand

parse_command(str) == ParseStripped(strip(str))

----------------------------------------------------------------------------
(* parse_command applied to one chat text *)

MaxDigits == 21

Words == {Chars("/check"), Chars("/CHECK"), Chars("/Check"), Chars(" /check"),
          Chars("/start"), Chars("/START"), Chars("/Start"),
          Chars("/chec"), Chars("hello"), <<>>}
BotNames == {<<>>, Chars("@my_bot1"), Chars("@")}
Separators == {<<>>, Chars(" "), Chars("\t ")}
DigitRuns == {[i \in 1..n |-> "1"] : n \in 0..MaxDigits} \cup {Chars("12a"), Chars("0042")}
Tails == {<<>>, Chars(" sg"), Chars(" IN"), Chars("  br"), Chars(" s"), Chars(" sgx"),
          Chars(" s1"), Chars("sg"), Chars(" sg ")}

Texts == {w \o b \o sep \o d \o tl :
             w \in Words, b \in BotNames, sep \in Separators, d \in DigitRuns, tl \in Tails}

InitParse ==
    /\ pc = "start"
    /\ text \in Texts
    /\ cmd = Idle
    /\ doc = Idle /\ fld = 0 /\ hits = Idle /\ best = Idle /\ summary = Idle
    /\ s = Idle /\ out = Idle /\ hook = Idle

DoParse ==
    /\ pc = "start"
    /\ cmd' = parse_command(text)
    /\ pc' = "parsed"
    /\ UNCHANGED <<doc, fld, hits, best, summary, s, out, text, hook>>

NextParse == DoParse

SpecParse == InitParse /\ [][NextParse]_vars

AllDigits(str) == \A i \in 1..Len(str) : str[i] \in DigitSet

\* the text with the letters of its command word (/start or /check, in any
\* letter case) put in lower case
CommandWordLowered(str) ==
    IF Len(str) >= 6 /\ lower(SubSeq(str, 1, 6)) \in {Chars("/start"), Chars("/check")}
    THEN lower(SubSeq(str, 1, 6)) \o SubSeq(str, 7, Len(str))
    ELSE str

\* C7: every text is classified as start, check(identifier, server) with a
\* digit identifier and a two-letter or default server, check(identifier,
\* default) for 6 to 20 bare digits, or unrecognized; and the letter case of
\* the command word of a start or check command does not change the result
C7_ClassifiesCaseInsensitively ==
    pc = "parsed" =>
        /\ cmd.cmd \in {"start", "check", "none"}
        /\ (AllDigits(strip(text)) /\ Len(strip(text)) >= 6 /\ Len(strip(text)) <= 20)
              => cmd = Check(strip(text), DEFAULT_SERVER)
        /\ cmd.cmd = "check" =>
              /\ cmd.uid # <<>> /\ AllDigits(cmd.uid)
              /\ \/ cmd.server = DEFAULT_SERVER
                 \/ Len(cmd.server) = 2 /\ \A i \in 1..2 : cmd.server[i] \in Letters
        /\ cmd = parse_command(CommandWordLowered(strip(text)))

----------------------------------------------------------------------------
(* The webhook handler: one inbound call, its upstream fetch and its reply *)

API_BASE == Chars("https://yunus-freefire-api.onrender.com/get_player_personal_show")

\* urlencode({"server": server, "uid": uid}) for letters and digits
build_api_url(uid, server) ==
    API_BASE \o Chars("?server=") \o server \o Chars("&uid=") \o uid

Warning == <<"U+26A0", "U+FE0F">>

help_text ==
    Chars("Hi! Send your Free Fire UID to get info.\n\nCommands:\n")
    \o <<Bullet>> \o Chars(" <b>/check &lt;uid&gt; [server]</b> ") \o <<EmDash>>
    \o Chars(" server default: sg\nExample: <b>/check 123456789 sg</b>\n\n")
    \o Chars("Servers: try <code>sg</code>, <code>in</code>, <code>br</code> ")
    \o Chars("(default: <code>sg</code>)\n")

welcome_text ==
    Chars("Welcome! Send your Free Fire UID or use <b>/check &lt;uid&gt; [server]</b> ")
    \o Chars("(default server: <code>sg</code>).")

\* what the upstream GET can end in: a response (status, body that is JSON
\* or not) or an httpx transport error
JsonResponse(status, body) ==
    [kind |-> "response", status |-> status, json |-> TRUE, body |-> body, raw |-> Dumps(body)]
TextResponse(status, raw) ==
    [kind |-> "response", status |-> status, json |-> FALSE, body |-> NullNode, raw |-> raw]
TransportError(kind) ==
    [kind |-> kind, status |-> 0, json |-> FALSE, body |-> NullNode, raw |-> <<>>]

UpstreamOutcomes == {
    JsonResponse(200, ScenarioDoc),
    JsonResponse(200, MapNode(<<>>)),
    JsonResponse(200, ListNode(<<>>)),
    TextResponse(200, Chars("<html>busy</html>")),
    JsonResponse(503, Map1(Chars("error"), StrNode(Chars("down")))),
    TextResponse(404, Chars("Not Found")),
    TransportError("timeout"),
    TransportError("connect_error") }

\* what the Telegram POST of tg_request can end in
TelegramOutcomes == {"ok", "not_ok", "non_json", "transport_error"}

\* the inbound request body: not JSON, JSON that is no object, an object
\* without message, or an update carrying message / edited_message
Bodies == {"invalid", "nondict", "nomessage", "message", "edited_message"}

HookTexts == {Chars("/start"), Chars("/START"), Chars("/check 123456789 in"),
              Chars("/CHECK@my_bot 42"), Chars("123456789"), Chars("12345"),
              Chars("hello"), <<>>}

Finished(hk, status) == [hk EXCEPT !.status = status]

InitHook ==
    /\ pc = "received"
    /\ hook \in {[body |-> b, log |-> <<>>, msg |-> <<>>, url |-> <<>>, status |-> 0] :
                    b \in Bodies}
    /\ text \in HookTexts
    /\ hook.body \notin {"message", "edited_message"} => text = <<>>
    /\ cmd = NoCommand
    /\ doc = Idle /\ fld = 0 /\ hits = Idle /\ best = Idle /\ summary = Idle
    /\ s = Idle /\ out = Idle

\* mutant: a failed fetch is tried again
AfterFetch_Retry(hk, r) ==
    IF r.kind # "response" \/ r.status # 200 \/ ~r.json \/ r.body.t # "map"
    THEN [pc |-> "fetching", hook |-> [hk EXCEPT !.log = Append(@, "fetch")]]
    ELSE [pc |-> "sending",
          hook |-> [hk EXCEPT !.log = Append(@, "send"),
                              !.msg = format_player_info(r.body).text]]

\* fetch_player up to its return or raise, then format_player_info and the
\* except clause of the handler: the reply text, or the error that escapes
AfterFetch(hk, r) ==
    IF r.kind # "response" THEN [pc |-> "done", hook |-> Finished(hk, 500)]
    ELSE IF r.status # 200
    THEN [pc |-> "sending",
          hook |-> [hk EXCEPT !.log = Append(@, "send"),
                              !.msg = Warning \o Chars(" Error: ")
                                      \o h(Chars("[HTTP ") \o IntToStr(r.status) \o Chars("] ")
                                           \o (IF r.json THEN Dumps(r.body)
                                                         ELSE Truncate(r.raw, 500)))]]
    ELSE IF ~r.json
    THEN [pc |-> "sending",
          hook |-> [hk EXCEPT !.log = Append(@, "send"),
                              !.msg = Warning \o Chars(" Error: ")
                                      \o h(Chars("Invalid JSON from upstream API."))]]
    ELSE IF r.body.t # "map" THEN [pc |-> "done", hook |-> Finished(hk, 500)]
    ELSE [pc |-> "sending",
          hook |-> [hk EXCEPT !.log = Append(@, "send"),
                              !.msg = format_player_info(r.body).text]]

\* tg_request up to its return or raise, and the end of the handler
AfterSend(hk, o) ==
    IF o \in {"ok", "not_ok"} THEN Finished(hk, 200) ELSE Finished(hk, 500)

\* telegram_webhook from the request to its first outbound call
HandleUpdate ==
    /\ pc = "received"
    /\ \/ /\ hook.body = "invalid"
          /\ hook' = Finished(hook, 400) /\ pc' = "done" /\ UNCHANGED cmd
       \/ /\ hook.body = "nondict"
          /\ hook' = Finished(hook, 500) /\ pc' = "done" /\ UNCHANGED cmd
       \/ /\ hook.body = "nomessage"
          /\ hook' = Finished(hook, 200) /\ pc' = "done" /\ UNCHANGED cmd
       \/ /\ hook.body \in {"message", "edited_message"}
          /\ cmd' = parse_command(text)
          /\ \/ /\ cmd'.cmd = "none"
                /\ hook' = [hook EXCEPT !.log = <<"send">>, !.msg = help_text]
                /\ pc' = "sending"
             \/ /\ cmd'.cmd = "start"
                /\ hook' = [hook EXCEPT !.log = <<"send">>, !.msg = welcome_text]
                /\ pc' = "sending"
             \/ /\ cmd'.cmd = "check"
                /\ hook' = [hook EXCEPT !.log = <<"fetch">>,
                                        !.url = build_api_url(cmd'.uid, cmd'.server)]
                /\ pc' = "fetching"
    /\ UNCHANGED <<doc, fld, hits, best, summary, s, out, text>>

\* the upstream GET ends; the handler goes on to its sendMessage or ends
FetchCompletes(r) ==
    /\ pc = "fetching"
    /\ pc' = AfterFetch(hook, r).pc
    /\ hook' = AfterFetch(hook, r).hook
    /\ doc' = r
    /\ UNCHANGED <<fld, hits, best, summary, s, out, text, cmd>>

\* the Telegram POST ends; the handler returns or raises
SendCompletes(o) ==
    /\ pc = "sending"
    /\ pc' = "done"
    /\ hook' = AfterSend(hook, o)
    /\ UNCHANGED <<doc, fld, hits, best, summary, s, out, text, cmd>>

NextHook ==
    \/ HandleUpdate
    \/ \E r \in UpstreamOutcomes : FetchCompletes(r)
    \/ \E o \in TelegramOutcomes : SendCompletes(o)

SpecHook == InitHook /\ [][NextHook]_vars

\* C5: a webhook call with a recognised check command ends by dispatching a
\* reply, whatever the outcome of the upstream fetch
C5_CheckAlwaysReplies ==
    (pc = "done" /\ cmd.cmd = "check") =>
        (hook.log # <<>> /\ hook.log[Len(hook.log)] = "send")

\* C6: one webhook call makes at most one upstream fetch and at most one
\* sendMessage dispatch, the fetch only for a check command and before the
\* dispatch
C6_AtMostOneFetchAndSend ==
    /\ hook.log \in {<<>>, <<"fetch">>, <<"send">>, <<"fetch", "send">>}
    /\ (hook.log # <<>> /\ hook.log[1] = "fetch") => cmd.cmd = "check"

\* a check command whose fetch failed with a non-200 status and whose error
\* reply was dispatched once
C6_Witness ==
    /\ pc = "done"
    /\ hook.log = <<"fetch", "send">>
    /\ hook.status = 200
    /\ doc.kind = "response" /\ doc.status = 503

====
